---- MODULE Spec2Model ----
(***************************************************************************)
(* Storefront front-ends of e-com-chatbot-frontend: the chat intent        *)
(* resolver, the cart ledger, the order processor and the registration     *)
(* gate, as state machines over React component state.                     *)
(*                                                                         *)
(* React state is modelled as the committed value of each useState cell.   *)
(* A handler that runs from a UI event reads the values of the latest      *)
(* render; a handler that awaits keeps the values it closed over when it   *)
(* was called (the "closure" fields of an in-flight call).  Functional     *)
(* updates (setX(prev => ...)) act on the committed value.                 *)
(*                                                                         *)
(* Prices are integers in thousandths of a currency unit, so that          *)
(* toFixed(2) is a real rounding.  Timestamps, dates, images and styling   *)
(* are not modelled.                                                       *)
(***************************************************************************)
EXTENDS Integers, Sequences, FiniteSets, TLC

VARIABLES variant, products, initPending, cart, orders, chatLog,
          isBackendOffline, calls, ev, userReg, regStep, tempName,
          view, loading, error, msgText, spans, isTyping

vars == <<variant, products, initPending, cart, orders, chatLog,
          isBackendOffline, calls, ev, userReg, regStep, tempName,
          view, loading, error, msgText, spans, isTyping>>

\* view, loading, error, isTyping: state of the StyleStore App (part_001,
\* part_003); msgText, spans: a message text and what parseMessage renders for it
auxVars == <<view, loading, error, msgText, spans, isTyping>>

(***************************************************************************)
(* Bounds                                                                  *)
(***************************************************************************)
\* longest cart, longest order history, chat sends per session
MaxCart == 2
MaxOrders == 1
MaxSends == 1
\* product cards the shopper clicks on (the first MaxPick of the catalog)
MaxPick == 1

(***************************************************************************)
(* JavaScript string primitives                                            *)
(***************************************************************************)
UpperChars == "ABCDEFGHIJKLMNOPQRSTUVWXYZ"
LowerChars == "abcdefghijklmnopqrstuvwxyz"
DigitChars == "0123456789"

CharAt(s, i) == SubSeq(s, i, i)

IsCharOf(c, alphabet) == \E i \in 1..Len(alphabet) : CharAt(alphabet, i) = c

LowerChar(c) ==
  IF IsCharOf(c, UpperChars)
  THEN CharAt(LowerChars, CHOOSE i \in 1..Len(UpperChars) : CharAt(UpperChars, i) = c)
  ELSE c

RECURSIVE ToLowerCase(_)
ToLowerCase(s) ==
  IF Len(s) = 0 THEN ""
  ELSE LowerChar(CharAt(s, 1)) \o ToLowerCase(SubSeq(s, 2, Len(s)))

StrIncludes(s, t) ==
  \E i \in 1..(Len(s) - Len(t) + 1) : SubSeq(s, i, i + Len(t) - 1) = t

StartsWith(s, t) == Len(s) >= Len(t) /\ SubSeq(s, 1, Len(t)) = t

\* s.split(d)[0] for a one-character delimiter d
SplitFirst(s, d) ==
  IF StrIncludes(s, d)
  THEN SubSeq(s, 1, (CHOOSE i \in 1..Len(s) :
                       /\ CharAt(s, i) = d
                       /\ \A j \in 1..(i - 1) : CharAt(s, j) # d) - 1)
  ELSE s

\* Trim that strips leading blanks only
Trim_LeadingOnly(s) ==
  IF Len(s) = 0 THEN ""
  ELSE IF CharAt(s, 1) = " " /\ Len(s) > 1 THEN SubSeq(s, 2, Len(s))
  ELSE s

RECURSIVE Trim(_)
Trim(s) ==
  IF Len(s) = 0 THEN ""
  ELSE IF CharAt(s, 1) = " " THEN Trim(SubSeq(s, 2, Len(s)))
  ELSE IF CharAt(s, Len(s)) = " " THEN Trim(SubSeq(s, 1, Len(s) - 1))
  ELSE s

(***************************************************************************)
(* Catalog                                                                 *)
(***************************************************************************)
FALLBACK_PRODUCTS == <<
  [id |-> 1, title |-> "Urban Explorer Backpack 2025", price |-> 119950, category |-> "men's clothing"],
  [id |-> 2, title |-> "Slim Fit Cotton T-Shirt",      price |-> 24500,  category |-> "men's clothing"],
  [id |-> 3, title |-> "Winter Explorer Jacket '25",   price |-> 69990,  category |-> "men's clothing"],
  [id |-> 4, title |-> "Gold Plated Ring",             price |-> 175000, category |-> "jewelery"],
  [id |-> 5, title |-> "Smart Wireless Headset Gen 2", price |-> 99990,  category |-> "electronics"],
  [id |-> 6, title |-> "Classic Leather Watch",        price |-> 125500, category |-> "accessories"] >>

\* Bodies that GET /products may answer with (any JSON array of Product).
RemoteCatalogs == { <<
  [id |-> 7, title |-> "Canvas Tote", price |-> 19999, category |-> "women's clothing"],
  [id |-> 2, title |-> "Slim Fit Cotton T-Shirt", price |-> 24500, category |-> "men's clothing"] >> }


(***************************************************************************)
(* Settings, suggested questions and inputs                                *)
(***************************************************************************)
Variants == {"app", "p002", "p004"}

\* INITIAL_SETTINGS.faqs of each variant
Faqs(v) ==
  IF v = "p002" THEN << >>
  ELSE << [question |-> "shipping", answer |-> "We ship within 24 hours."],
          [question |-> "return",   answer |-> "Returns accepted within 30 days."] >>

SupportEmail == "support@nexa.com"

WelcomeMessage ==
  "Hello! I'm NexaBot. You can ask me to 'Add items to cart', 'Check stock', or 'Track order'. How can I help?"

SUGGESTED_QUESTIONS(v) ==
  IF v = "p002"
  THEN {"What is your return policy?", "How long does shipping take?",
        "Track my order", "Contact support"}
  ELSE {"Show my cart", "Track my order", "Shipping policy",
        "Best selling items", "Clear my cart", "Contact support"}

\* Texts typed into the chat input field.
Messages ==
  { "clear my cart and place order",
    "Empty the cart and checkout",
    "Place Order",
    "checkout my cart",
    "what is in cart",
    "add this to my cart",
    "buy my cart",
    "place my cart",
    "add to cart slim fit cotton t-shirt",
    "Buy Gold Plated Ring",
    "buy something for men",
    "Track order 10000",
    "hello",
    "  " }

\* Math.floor(10000 + Math.random() * 90000).toString(): the two extremes
OrderIds == {"10000", "99999"}

\* Outcomes of POST /chat: the fetch rejects, answers non-OK, or answers
\* OK with a JSON body.
ChatBodies ==
  { [text |-> "Sure, here you go.", type |-> "text"],
    [text |-> "Updated your cart.", type |-> "cart-update"],
    [text |-> "", type |-> "text"] }

ChatOutcomes ==
  { [kind |-> "reject", body |-> [text |-> "", type |-> ""]],
    [kind |-> "non-ok", body |-> [text |-> "", type |-> ""]] }
  \cup { [kind |-> "ok", body |-> b] : b \in ChatBodies }

NoBody == [text |-> "", type |-> "null"]

\* apiService.sendChat: the parsed body, or null (NoBody) on any failure
sendChat(outcome) == IF outcome.kind = "ok" THEN outcome.body ELSE NoBody

\* apiService.getProducts: the product array, or null (<< >> with ok FALSE)
ProductOutcomes ==
  { [kind |-> "reject", body |-> << >>], [kind |-> "non-ok", body |-> << >>] }
  \cup { [kind |-> "ok", body |-> c] : c \in RemoteCatalogs }

getProducts(outcome) ==
  IF outcome.kind = "ok" THEN [ok |-> TRUE, list |-> outcome.body]
  ELSE [ok |-> FALSE, list |-> << >>]

(***************************************************************************)
(* Number formatting                                                       *)
(***************************************************************************)
RECURSIVE SumPrices(_)
\* cart.reduce((acc, i) => acc + i.price, 0)
SumPrices(c) == IF Len(c) = 0 THEN 0 ELSE c[1].price + SumPrices(Tail(c))

\* toFixed2 that drops the third decimal instead of rounding
toFixed2_Truncate(mills) == mills \div 10

\* Number.prototype.toFixed(2), as a count of hundredths (ties go up)
toFixed2(mills) == (mills + 5) \div 10

\* parseFloat(x.toFixed(2)), back in thousandths
RoundedTotal(mills) == toFixed2(mills) * 10

\* the text of x.toFixed(2)
Fixed2Text(mills) ==
  LET h == toFixed2(mills)
      frac == h % 100
  IN  ToString(h \div 100) \o "." \o (IF frac < 10 THEN "0" ELSE "") \o ToString(frac)

RECURSIVE JoinTitles(_)
\* cart.map(i => i.title).join(', ')
JoinTitles(c) ==
  IF Len(c) = 0 THEN ""
  ELSE IF Len(c) = 1 THEN c[1].title
  ELSE c[1].title \o ", " \o JoinTitles(Tail(c))


(***************************************************************************)
(* Intent rules of handleChat                                              *)
(***************************************************************************)
\* rule 1 of App.tsx and part_002
MatchesClear(lowerMsg) ==
  (StrIncludes(lowerMsg, "clear") \/ StrIncludes(lowerMsg, "empty"))
  /\ StrIncludes(lowerMsg, "cart")

\* rule 2 of App.tsx and part_002, rule C of part_004
MatchesPlace(lowerMsg) ==
  StrIncludes(lowerMsg, "place order") \/ StrIncludes(lowerMsg, "checkout")

\* rule 3: the condition of the show-cart branch in each variant
MatchesShow(v, lowerMsg) ==
  IF v = "app"
  THEN /\ \/ StrIncludes(lowerMsg, "show cart")
          \/ StrIncludes(lowerMsg, "my cart")
          \/ StrIncludes(lowerMsg, "in cart")
       /\ ~StrIncludes(lowerMsg, "add")
       /\ ~StrIncludes(lowerMsg, "buy")
       /\ ~StrIncludes(lowerMsg, "place")
       /\ ~StrIncludes(lowerMsg, "checkout")
  ELSE IF v = "p002"
  THEN /\ StrIncludes(lowerMsg, "show cart") \/ StrIncludes(lowerMsg, "my cart")
       /\ ~StrIncludes(lowerMsg, "add")
  ELSE StrIncludes(lowerMsg, "show cart") \/ StrIncludes(lowerMsg, "my cart")

\* the condition of the add-to-cart branch in each variant
MatchesAdd(v, lowerMsg) ==
  IF v = "p002" THEN StrIncludes(lowerMsg, "add")
  ELSE StrIncludes(lowerMsg, "add to cart") \/ StrIncludes(lowerMsg, "buy")

\* rule "clear cart" of part_004
MatchesClear4(lowerMsg) ==
  StrIncludes(lowerMsg, "clear cart") \/ StrIncludes(lowerMsg, "empty cart")

\* LocalIntent with the place-order rule tried before the clear-cart rule
LocalIntent_PlaceFirst(v, lowerMsg) ==
  IF MatchesPlace(lowerMsg) THEN "place"
  ELSE IF MatchesClear(lowerMsg) THEN "clear"
  ELSE IF MatchesShow(v, lowerMsg) THEN "show"
  ELSE "none"

\* The if / else-if chain that runs before any await in App.tsx and part_002.
LocalIntent(v, lowerMsg) ==
  IF MatchesClear(lowerMsg) THEN "clear"
  ELSE IF MatchesPlace(lowerMsg) THEN "place"
  ELSE IF MatchesShow(v, lowerMsg) THEN "show"
  ELSE "none"

\* products.find(...): index of the first catalog entry named by the message, 0 if none
ProductNamed(v, p, lowerMsg) ==
  \/ StrIncludes(lowerMsg, ToLowerCase(p.title))
  \/ /\ v # "p002"
     /\ StrIncludes(lowerMsg, SplitFirst(ToLowerCase(p.category), "'"))

\* FindProduct that takes the last catalog entry named by the message
FindProduct_Last(v, prods, lowerMsg) ==
  IF \E i \in 1..Len(prods) : ProductNamed(v, prods[i], lowerMsg)
  THEN CHOOSE i \in 1..Len(prods) :
         /\ ProductNamed(v, prods[i], lowerMsg)
         /\ \A j \in (i + 1)..Len(prods) : ~ProductNamed(v, prods[j], lowerMsg)
  ELSE 0

FindProduct(v, prods, lowerMsg) ==
  IF \E i \in 1..Len(prods) : ProductNamed(v, prods[i], lowerMsg)
  THEN CHOOSE i \in 1..Len(prods) :
         /\ ProductNamed(v, prods[i], lowerMsg)
         /\ \A j \in 1..(i - 1) : ~ProductNamed(v, prods[j], lowerMsg)
  ELSE 0

\* settings.faqs.find(f => lowerMsg.includes(f.question))
FindFaq(v, lowerMsg) ==
  LET f == Faqs(v) IN
  IF \E i \in 1..Len(f) : StrIncludes(lowerMsg, f[i].question)
  THEN CHOOSE i \in 1..Len(f) :
         /\ StrIncludes(lowerMsg, f[i].question)
         /\ \A j \in 1..(i - 1) : ~StrIncludes(lowerMsg, f[j].question)
  ELSE 0

(***************************************************************************)
(* Reply texts                                                             *)
(***************************************************************************)
ReplyCleared == "I've emptied your cart."

ReplyPlaceEmpty(v) ==
  IF v = "p002" THEN "Your cart is empty."
  ELSE "Your cart is empty. Add some cool gear first!"

\* the delivery-date sentence of App.tsx and part_004 is left out (dates are not modelled)
ReplyOrderPlaced(v, id) ==
  IF v = "p002" THEN "Order **#" \o id \o "** placed!"
  ELSE "Order #" \o id \o " placed successfully!"

ReplyShowEmpty(v) ==
  IF v = "p002" THEN "Your cart is empty." ELSE "Your cart is currently empty."

ReplyShowCart(v, c) ==
  IF v = "app"
  THEN "You have " \o ToString(Len(c)) \o " items in your cart: " \o JoinTitles(c)
       \o ". Total: $" \o Fixed2Text(SumPrices(c)) \o ". Say 'Place Order' to checkout."
  ELSE IF v = "p002"
  THEN "Cart: " \o JoinTitles(c) \o ". Total: $" \o Fixed2Text(SumPrices(c)) \o "."
  ELSE "You have " \o ToString(Len(c)) \o " items totaling $"
       \o Fixed2Text(SumPrices(c)) \o ". Say 'Place Order' to checkout."

ReplyAdded(v, p, closureLen) ==
  IF v = "p002" THEN "Added **" \o p.title \o "** to cart."
  ELSE "I've added '" \o p.title \o "' to your cart. Total items: "
       \o ToString(closureLen + 1) \o "."

ReplyNotFound(v) ==
  IF v = "p002" THEN "Item not found."
  ELSE "I couldn't find that product directly. Try checking our catalog above!"

ReplyBestSelling ==
  "Our best-selling item is the 'Urban Explorer Backpack'. Would you like to add it to your cart?"

ReplyContact == "You can reach our human support team at " \o SupportEmail \o "."

\* ReplyOffline with no text
ReplyOffline_Empty(v) == ""

ReplyOffline(v) ==
  IF v = "p002" THEN "Offline mode active."
  ELSE "I'm running in offline mode. I can help you browse products and manage your cart!"

ReplyCheckout(v, id) ==
  IF v = "p002" THEN "Order **#" \o id \o "** placed!"
  ELSE "Order #" \o id \o " placed successfully! Thank you for your purchase."

UserMsg(text) == [sender |-> "user", text |-> text]
BotMsg(text) == [sender |-> "bot", text |-> text]

(***************************************************************************)
(* Order Processor                                                         *)
(***************************************************************************)
NoOrder == [id |-> "", items |-> << >>, total |-> 0, status |-> "null"]

\* processOrder without its empty-cart return
processOrder_NoEmptyCheck(c, ords, id) ==
  LET newOrder == [id |-> id, items |-> c,
                   total |-> RoundedTotal(SumPrices(c)), status |-> "Pending"]
  IN  [order |-> newOrder, orders |-> <<newOrder>> \o ords, clearsCart |-> TRUE]

\* processOrder(): c is the cart of the render the caller belongs to, ords
\* the committed order history (setOrders is a functional update).
processOrder(c, ords, id) ==
  IF Len(c) = 0
  THEN [order |-> NoOrder, orders |-> ords, clearsCart |-> FALSE]
  ELSE LET newOrder == [id |-> id, items |-> c,
                        total |-> RoundedTotal(SumPrices(c)), status |-> "Pending"]
       IN  [order |-> newOrder, orders |-> <<newOrder>> \o ords, clearsCart |-> TRUE]


(***************************************************************************)
(* State after construction                                                *)
(***************************************************************************)
NoEvent == [op |-> "init", msg |-> "", rule |-> "", cartLen0 |-> 0, reply |-> ""]

Event(op, msg, rule, len0, reply) ==
  [op |-> op, msg |-> msg, rule |-> rule, cartLen0 |-> len0, reply |-> reply]

UnusedReg == [name |-> "", mobile |-> "", registered |-> FALSE]

Init ==
  /\ variant \in Variants
  /\ products = FALLBACK_PRODUCTS
  /\ initPending = (variant # "p004")
  /\ cart = << >>
  /\ orders = << >>
  /\ chatLog = << BotMsg(WelcomeMessage) >>
  /\ isBackendOffline = FALSE
  /\ calls = << >>
  /\ ev = NoEvent
  /\ userReg = UnusedReg
  /\ regStep = "name"
  /\ tempName = ""
  /\ view = "shop"
  /\ loading = FALSE
  /\ error = ""
  /\ msgText = ""
  /\ spans = << >>
  /\ isTyping = FALSE

regVars == <<userReg, regStep, tempName>>

UserSends(log) == Len(SelectSeq(log, LAMBDA m : m.sender = "user"))

RemoveAt(seq, k) == SubSeq(seq, 1, k - 1) \o SubSeq(seq, k + 1, Len(seq))

(***************************************************************************)
(* Catalog load and cart buttons                                           *)
(***************************************************************************)
\* initData of App.tsx, part_002 and part_005
InitData(outcome) ==
  /\ variant \in {"app", "p002", "p005"}
  /\ initPending
  /\ initPending' = FALSE
  /\ LET remoteProducts == getProducts(outcome) IN
       IF remoteProducts.ok
       THEN products' = remoteProducts.list /\ isBackendOffline' = FALSE
       ELSE products' = FALLBACK_PRODUCTS /\ isBackendOffline' = TRUE
  /\ UNCHANGED <<auxVars, variant, cart, orders, chatLog, calls, ev, regVars>>

\* handleAddToCart, from a ProductCard of the rendered catalog
handleAddToCart(i) ==
  /\ variant \in {"app", "p002", "p004", "p005"}
  /\ i \in 1..Len(products)
  /\ i <= MaxPick
  /\ Len(cart) < MaxCart
  /\ cart' = Append(cart, products[i])
  /\ UNCHANGED <<auxVars, variant, products, initPending, orders, chatLog,
                 isBackendOffline, calls, ev, regVars>>

\* handleRemoveFromCart, from a row of the cart view
handleRemoveFromCart(indexToRemove) ==
  /\ variant \in {"app", "p002", "p005"}
  /\ indexToRemove \in 1..Len(cart)
  /\ cart' = RemoveAt(cart, indexToRemove)
  /\ UNCHANGED <<auxVars, variant, products, initPending, orders, chatLog,
                 isBackendOffline, calls, ev, regVars>>

\* handleClearCart, from the Clear Cart button (rendered for a non-empty cart)
handleClearCart ==
  /\ variant \in {"app", "p002"}
  /\ Len(cart) > 0
  /\ cart' = << >>
  /\ UNCHANGED <<auxVars, variant, products, initPending, orders, chatLog,
                 isBackendOffline, calls, ev, regVars>>

\* onCheckout of the cart view (the button is rendered for a non-empty cart)
onCheckout(id) ==
  /\ variant \in {"app", "p002"}
  /\ Len(cart) > 0
  /\ Len(orders) < MaxOrders
  /\ LET r == processOrder(cart, orders, id) IN
       /\ orders' = r.orders
       /\ cart' = IF r.clearsCart THEN << >> ELSE cart
       /\ chatLog' = IF r.order # NoOrder
                     THEN Append(chatLog, BotMsg(ReplyCheckout(variant, r.order.id)))
                     ELSE chatLog
  /\ UNCHANGED <<auxVars, variant, products, initPending, isBackendOffline, calls, ev, regVars>>


(***************************************************************************)
(* The string work of handleChat, tabulated over the inputs                *)
(***************************************************************************)
AllMessages == Messages \cup SUGGESTED_QUESTIONS("app") \cup SUGGESTED_QUESTIONS("p002")

Catalogs == {FALLBACK_PRODUCTS} \cup RemoteCatalogs

\* message.toLowerCase()
LowerOf == [m \in AllMessages |-> ToLowerCase(m)]

\* !input.trim()
BlankOf == [m \in AllMessages |-> Trim(m) = ""]

IntentOf == [v \in Variants, m \in AllMessages |-> LocalIntent(v, LowerOf[m])]

\* the rule of the local fallback that takes the message, before the catalog is searched
FallbackRule(v, lowerMsg) ==
  IF MatchesAdd(v, lowerMsg) THEN "add"
  ELSE IF v = "p002" THEN "offline"
  ELSE IF StrIncludes(lowerMsg, "best selling") THEN "best-selling"
  ELSE IF StrIncludes(lowerMsg, "contact") \/ StrIncludes(lowerMsg, "support") THEN "contact"
  ELSE IF FindFaq(v, lowerMsg) # 0 THEN "faq"
  ELSE "offline"

FallbackRuleOf == [v \in Variants, m \in AllMessages |-> FallbackRule(v, LowerOf[m])]

FaqOf == [v \in Variants, m \in AllMessages |-> FindFaq(v, LowerOf[m])]

FoundOf == [v \in Variants, c \in Catalogs, m \in AllMessages |-> FindProduct(v, c, LowerOf[m])]

\* lowerMsg.includes('add to cart') of the backend-success branch
SaysAddToCartOf == [m \in AllMessages |-> StrIncludes(LowerOf[m], "add to cart")]

(***************************************************************************)
(* handleChat of App.tsx and part_002                                      *)
(***************************************************************************)
\* a handleChat call suspended at an await, with the values it closed over
Call(message, stage) ==
  [message |-> message, stage |-> stage, cartLength |-> Len(cart), products |-> products]

\* The part of handleChat that runs before the first await: the user message
\* is appended and rules 1-3 are tried; a message none of them takes is sent
\* to POST /chat.
handleChat(message) ==
  /\ variant \in {"app", "p002"}
  /\ LET intent == IntentOf[variant, message] IN
       CASE intent = "clear" ->
              /\ cart' = << >>
              /\ chatLog' = chatLog \o << UserMsg(message), BotMsg(ReplyCleared) >>
              /\ ev' = Event("handleChat", message, "clear", Len(cart), ReplyCleared)
              /\ UNCHANGED <<orders, calls>>
         [] intent = "place" /\ Len(cart) = 0 ->
              /\ chatLog' = chatLog \o << UserMsg(message), BotMsg(ReplyPlaceEmpty(variant)) >>
              /\ ev' = Event("handleChat", message, "place-empty", Len(cart),
                             ReplyPlaceEmpty(variant))
              /\ UNCHANGED <<cart, orders, calls>>
         [] intent = "place" /\ Len(cart) > 0 ->
              /\ Len(orders) < MaxOrders
              /\ \E id \in OrderIds :
                   LET r == processOrder(cart, orders, id)
                       reply == IF r.order # NoOrder
                                THEN ReplyOrderPlaced(variant, r.order.id)
                                ELSE "Error placing order."
                   IN  /\ orders' = r.orders
                       /\ cart' = IF r.clearsCart THEN << >> ELSE cart
                       /\ chatLog' = chatLog \o << UserMsg(message), BotMsg(reply) >>
                       /\ ev' = Event("handleChat", message, "place", Len(cart), reply)
              /\ UNCHANGED calls
         [] intent = "show" ->
              /\ LET reply == IF Len(cart) = 0 THEN ReplyShowEmpty(variant)
                              ELSE ReplyShowCart(variant, cart)
                 IN  /\ chatLog' = chatLog \o << UserMsg(message), BotMsg(reply) >>
                     /\ ev' = Event("handleChat", message, "show", Len(cart), reply)
              /\ UNCHANGED <<cart, orders, calls>>
         [] intent = "none" ->
              /\ chatLog' = Append(chatLog, UserMsg(message))
              /\ calls' = Append(calls, Call(message, "await"))
              /\ ev' = Event("handleChat", message, "remote", Len(cart), "")
              /\ UNCHANGED <<cart, orders>>
  /\ UNCHANGED <<auxVars, variant, products, initPending, isBackendOffline, regVars>>

\* chatResponse that gives up after a failed POST: the call ends without a reply
chatResponse_GivesUp(k, outcome) ==
  /\ variant \in {"app", "p002"}
  /\ k \in 1..Len(calls)
  /\ calls[k].stage = "await"
  /\ LET c == calls[k]
         backendResponse == sendChat(outcome)
     IN
       IF backendResponse # NoBody /\ backendResponse.text # ""
       THEN /\ chatLog' = Append(chatLog, BotMsg(backendResponse.text))
            /\ calls' = RemoveAt(calls, k)
            /\ ev' = Event("chatResponse", c.message, "backend", c.cartLength,
                           backendResponse.text)
            /\ UNCHANGED isBackendOffline
       ELSE /\ isBackendOffline' = TRUE
            /\ calls' = RemoveAt(calls, k)
            /\ ev' = Event("chatResponse", c.message, "failed", c.cartLength, "")
            /\ UNCHANGED chatLog
  /\ UNCHANGED <<auxVars, variant, products, initPending, cart, orders, regVars>>

\* The continuation after `await apiService.sendChat(...)` for call k.
chatResponse(k, outcome) ==
  /\ variant \in {"app", "p002"}
  /\ k \in 1..Len(calls)
  /\ calls[k].stage = "await"
  /\ LET c == calls[k]
         backendResponse == sendChat(outcome)
     IN
       IF backendResponse # NoBody /\ backendResponse.text # ""
       THEN LET wantsAdd == \/ backendResponse.type = "cart-update"
                            \/ SaysAddToCartOf[c.message]
                i == IF wantsAdd THEN FoundOf[variant, c.products, c.message] ELSE 0
            IN  /\ i # 0 => Len(cart) < MaxCart
                /\ cart' = IF i # 0 THEN Append(cart, c.products[i]) ELSE cart
                /\ chatLog' = Append(chatLog, BotMsg(backendResponse.text))
                /\ calls' = RemoveAt(calls, k)
                /\ ev' = Event("chatResponse", c.message,
                               IF i # 0 THEN "backend-add" ELSE "backend",
                               c.cartLength, backendResponse.text)
                /\ UNCHANGED isBackendOffline
       ELSE /\ isBackendOffline' = TRUE
            /\ calls' = [calls EXCEPT ![k].stage = "delay"]
            /\ ev' = Event("chatResponse", c.message, "failed", c.cartLength, "")
            /\ UNCHANGED <<cart, chatLog>>
  /\ UNCHANGED <<auxVars, variant, products, initPending, orders, regVars>>

\* chatFallback that writes its reply over the last message of the transcript
chatFallback_Overwrites(k) ==
  /\ variant \in {"app", "p002"}
  /\ k \in 1..Len(calls)
  /\ calls[k].stage = "delay"
  /\ chatLog' = Append(SubSeq(chatLog, 1, Len(chatLog) - 1), BotMsg(ReplyOffline(variant)))
  /\ calls' = RemoveAt(calls, k)
  /\ ev' = Event("chatFallback", calls[k].message, "offline", calls[k].cartLength,
                 ReplyOffline(variant))
  /\ UNCHANGED <<auxVars, variant, products, initPending, cart, orders, isBackendOffline, regVars>>

\* The local fallback of call k, after the 600 ms timer that follows a failed POST.
chatFallback(k) ==
  /\ variant \in {"app", "p002"}
  /\ k \in 1..Len(calls)
  /\ calls[k].stage = "delay"
  /\ LET c == calls[k]
         i == FoundOf[variant, c.products, c.message]
         branch == FallbackRuleOf[variant, c.message]
         rule == IF branch = "add" /\ i = 0 THEN "not-found" ELSE branch
         reply ==
           CASE rule = "add" -> ReplyAdded(variant, c.products[i], c.cartLength)
             [] rule = "not-found" -> ReplyNotFound(variant)
             [] rule = "best-selling" -> ReplyBestSelling
             [] rule = "contact" -> ReplyContact
             [] rule = "faq" -> Faqs(variant)[FaqOf[variant, c.message]].answer
             [] rule = "offline" -> ReplyOffline(variant)
     IN
       /\ rule = "add" => Len(cart) < MaxCart
       /\ cart' = IF rule = "add" THEN Append(cart, c.products[i]) ELSE cart
       /\ chatLog' = Append(chatLog, BotMsg(reply))
       /\ calls' = RemoveAt(calls, k)
       /\ ev' = Event("chatFallback", c.message, rule, c.cartLength, reply)
  /\ UNCHANGED <<auxVars, variant, products, initPending, orders, isBackendOffline, regVars>>

(***************************************************************************)
(* handleChat of part_004 (every message waits 600 ms, then is resolved    *)
(* locally against the values of the render that issued the call)          *)
(***************************************************************************)
IsDigit(c) == IsCharOf(c, DigitChars)

\* lowerMsg.match(/#?(\d{4,})/): the captured digits, "" when there is no match
OrderNumberIn(s) ==
  LET starts == { i \in 1..(Len(s) - 3) : \A j \in i..(i + 3) : IsDigit(CharAt(s, j)) } IN
  IF starts = {} THEN ""
  ELSE LET i == CHOOSE a \in starts : \A b \in starts : a <= b
           e == CHOOSE z \in i..Len(s) :
                  /\ \A j \in i..z : IsDigit(CharAt(s, j))
                  /\ (z = Len(s) \/ ~IsDigit(CharAt(s, z + 1)))
       IN  SubSeq(s, i, e)

OrderNumberOf == [m \in AllMessages |-> OrderNumberIn(LowerOf[m])]

\* orders.find(o => o.id === id): index of the first such order, 0 if none
FindOrder(ords, id) ==
  IF \E i \in 1..Len(ords) : ords[i].id = id
  THEN CHOOSE i \in 1..Len(ords) :
         ords[i].id = id /\ \A j \in 1..(i - 1) : ords[j].id # id
  ELSE 0

RandomResponses == <<
  "I can help you browse products, check your cart, or track an order.",
  "That sounds interesting! Have you seen our new Urban Explorer Backpack?",
  "I'm currently running in 'Demo Mode', so my brain is a bit limited, but I can help you shop!",
  "Could you rephrase that? I'm best at handling shopping requests." >>

\* the else-if chain of part_004
Intent4(lowerMsg) ==
  IF MatchesAdd("p004", lowerMsg) THEN "add"
  ELSE IF MatchesShow("p004", lowerMsg) THEN "show"
  ELSE IF MatchesClear4(lowerMsg) THEN "clear"
  ELSE IF MatchesPlace(lowerMsg) THEN "place"
  ELSE IF StrIncludes(lowerMsg, "track") THEN "track"
  ELSE IF StrIncludes(lowerMsg, "best selling") \/ StrIncludes(lowerMsg, "best seller")
       THEN "best-selling"
  ELSE IF StrIncludes(lowerMsg, "contact") \/ StrIncludes(lowerMsg, "support")
       THEN "contact"
  ELSE "fallback"

Intent4Of == [m \in AllMessages |-> Intent4(LowerOf[m])]

\* a part_004 call suspended at its timer, with the cart and order history it closed over
Call4(message) ==
  [message |-> message, stage |-> "delay", cart |-> cart, orders |-> orders]

\* up to the await: the user message is appended and the timer is started
handleChat4(message) ==
  /\ variant = "p004"
  /\ chatLog' = Append(chatLog, UserMsg(message))
  /\ calls' = Append(calls, Call4(message))
  /\ ev' = Event("handleChat4", message, "wait", Len(cart), "")
  /\ UNCHANGED <<auxVars, variant, products, initPending, cart, orders, isBackendOffline, regVars>>

\* the reply of part_004 for every branch but place-order and the random fallback
Reply4(rule, c, i) ==
  CASE rule = "add" -> ReplyAdded("p004", products[i], Len(c.cart))
    [] rule = "not-found" -> ReplyNotFound("p004")
    [] rule = "show" -> (IF Len(c.cart) = 0 THEN ReplyShowEmpty("p004")
                         ELSE ReplyShowCart("p004", c.cart))
    [] rule = "clear" -> ReplyCleared
    [] rule = "place-empty" -> ReplyPlaceEmpty("p004")
    [] rule = "track" ->
         LET num == OrderNumberOf[c.message]
             o == FindOrder(c.orders, num)
         IN  IF num = "" THEN "Please provide the Order ID (e.g., 'Track order 12345')."
             ELSE IF o # 0
             THEN "Order #" \o c.orders[o].id \o " is currently " \o c.orders[o].status \o "."
             ELSE "I couldn't find an order with that ID."
    [] rule = "best-selling" -> ReplyBestSelling
    [] rule = "contact" -> ReplyContact
    [] rule = "faq" -> Faqs("p004")[FaqOf["p004", c.message]].answer

\* after the await, for call k
handleChat4Resume(k) ==
  /\ variant = "p004"
  /\ k \in 1..Len(calls)
  /\ calls[k].stage = "delay"
  /\ LET c == calls[k]
         intent == Intent4Of[c.message]
         i == FoundOf[variant, products, c.message]
         rule ==
           CASE intent = "add" -> (IF i # 0 THEN "add" ELSE "not-found")
             [] intent = "place" -> (IF Len(c.cart) = 0 THEN "place-empty" ELSE "place")
             [] intent = "fallback" ->
                  (IF FaqOf[variant, c.message] # 0 THEN "faq" ELSE "random")
             [] OTHER -> intent
     IN
       /\ calls' = RemoveAt(calls, k)
       /\ CASE rule = "place" ->
                 /\ Len(orders) < MaxOrders
                 /\ \E id \in OrderIds :
                      LET r == processOrder(c.cart, orders, id)
                          reply == IF r.order # NoOrder
                                   THEN ReplyOrderPlaced(variant, r.order.id)
                                   ELSE "Something went wrong while placing the order."
                      IN  /\ orders' = r.orders
                          /\ cart' = IF r.clearsCart THEN << >> ELSE cart
                          /\ chatLog' = Append(chatLog, BotMsg(reply))
                          /\ ev' = Event("handleChat4Resume", c.message, rule, Len(c.cart), reply)
            [] rule = "random" ->
                 /\ \E rnd \in 1..Len(RandomResponses) :
                      /\ chatLog' = Append(chatLog, BotMsg(RandomResponses[rnd]))
                      /\ ev' = Event("handleChat4Resume", c.message, rule, Len(c.cart),
                                     RandomResponses[rnd])
                 /\ UNCHANGED <<cart, orders>>
            [] OTHER ->
                 /\ rule = "add" => Len(cart) < MaxCart
                 /\ cart' = CASE rule = "add" -> Append(cart, products[i])
                              [] rule = "clear" -> << >>
                              [] OTHER -> cart
                 /\ chatLog' = Append(chatLog, BotMsg(Reply4(rule, c, i)))
                 /\ ev' = Event("handleChat4Resume", c.message, rule, Len(c.cart),
                                Reply4(rule, c, i))
                 /\ UNCHANGED orders
  /\ UNCHANGED <<auxVars, variant, products, initPending, isBackendOffline, regVars>>

(***************************************************************************)
(* handleStyleMatch of part_002                                            *)
(***************************************************************************)
\* Outcomes of POST /stylist as apiService.getStyleAdvice returns them: null
\* on any failure, else the parsed body.
StyleOutcomes ==
  { [kind |-> "reject", text |-> ""], [kind |-> "non-ok", text |-> ""],
    [kind |-> "ok", text |-> "Pair it with white sneakers."], [kind |-> "ok", text |-> ""] }

StyleAsk(product) == "Suggest an outfit with **" \o product.title \o "**"

\* handleStyleMatch, up to the await: the request is appended as a user message
handleStyleMatch(i) ==
  /\ variant = "p002"
  /\ i \in 1..Len(products)
  /\ i <= MaxPick
  /\ UserSends(chatLog) < MaxSends
  /\ chatLog' = Append(chatLog, UserMsg(StyleAsk(products[i])))
  /\ calls' = Append(calls, [message |-> StyleAsk(products[i]), stage |-> "style",
                             cartLength |-> Len(cart), products |-> products])
  /\ ev' = Event("handleStyleMatch", StyleAsk(products[i]), "wait", Len(cart), "")
  /\ UNCHANGED <<auxVars, variant, products, initPending, cart, orders, isBackendOffline, regVars>>

\* styleResponse that puts the advice in place of the transcript
styleResponse_Overwrites(k, outcome) ==
  /\ variant = "p002"
  /\ k \in 1..Len(calls)
  /\ calls[k].stage = "style"
  /\ chatLog' = << BotMsg("Server busy.") >>
  /\ calls' = RemoveAt(calls, k)
  /\ ev' = Event("styleResponse", calls[k].message, outcome.kind, calls[k].cartLength, "")
  /\ UNCHANGED <<auxVars, variant, products, initPending, cart, orders, isBackendOffline, regVars>>

\* handleStyleMatch, after `await apiService.getStyleAdvice(product.id)`
styleResponse(k, outcome) ==
  /\ variant = "p002"
  /\ k \in 1..Len(calls)
  /\ calls[k].stage = "style"
  /\ LET reply == IF outcome.kind = "ok" /\ outcome.text # "" THEN outcome.text
                  ELSE "Server busy."
     IN  /\ chatLog' = Append(chatLog, BotMsg(reply))
         /\ calls' = RemoveAt(calls, k)
         /\ ev' = Event("styleResponse", calls[k].message, outcome.kind, calls[k].cartLength, reply)
  /\ UNCHANGED <<auxVars, variant, products, initPending, cart, orders, isBackendOffline, regVars>>

(***************************************************************************)
(* ChatWidget of App.tsx, part_002 and part_004                            *)
(***************************************************************************)
onSendMessage(message) ==
  /\ UserSends(chatLog) < MaxSends
  /\ IF variant = "p004" THEN handleChat4(message) ELSE handleChat(message)

\* handleSend: blank input is dropped (part_002 also sends when an image is attached)
handleSend(input, hasImage) ==
  /\ ~BlankOf[input] \/ (variant = "p002" /\ hasImage)
  /\ onSendMessage(input)

\* handleQuickQuestion: a suggested question goes straight to onSendMessage
handleQuickQuestion(question) ==
  /\ question \in SUGGESTED_QUESTIONS(variant)
  /\ onSendMessage(question)

Next ==
  \/ \E outcome \in ProductOutcomes : InitData(outcome)
  \/ \E i \in 1..Len(products) : handleAddToCart(i)
  \/ \E i \in 1..Len(cart) : handleRemoveFromCart(i)
  \/ handleClearCart
  \/ \E id \in OrderIds : onCheckout(id)
  \/ \E m \in Messages, img \in BOOLEAN : handleSend(m, img)
  \/ \E q \in AllMessages : handleQuickQuestion(q)
  \/ \E k \in 1..Len(calls), outcome \in ChatOutcomes : chatResponse(k, outcome)
  \/ \E k \in 1..Len(calls) : chatFallback(k)
  \/ \E k \in 1..Len(calls) : handleChat4Resume(k)
  \/ \E i \in 1..Len(products) : handleStyleMatch(i)
  \/ \E k \in 1..Len(calls), outcome \in StyleOutcomes : styleResponse(k, outcome)

Spec == Init /\ [][Next]_vars


(***************************************************************************)
(* part_005: registration gate and remote-only chat                        *)
(***************************************************************************)
\* Texts typed into the chat input field of part_005.
RegInputs ==
  { "", "  ", "A", "Asha", "12345", "9876543210", " 9876543210 ",
    "98765432101", "98765abcde", "show my cart" }

Welcome5 ==
  "Hello! Welcome to Nexa AI Store. To get started, please share your name and mobile number."

\* mobileRegex without the end anchor: /^\d{10}/
mobileRegex_NoEndAnchor(s) == Len(s) >= 10 /\ \A i \in 1..10 : IsDigit(CharAt(s, i))

\* /^\d{10}$/.test(s)
mobileRegex(s) == Len(s) = 10 /\ \A i \in 1..Len(s) : IsDigit(CharAt(s, i))

TrimOf == [x \in RegInputs |-> Trim(x)]

MobileOkOf == [x \in RegInputs |-> mobileRegex(TrimOf[x])]

RegUserText(name, mobile) == name \o " | " \o mobile

\* the welcome of handleRegister (its emoji is left out)
RegWelcomeText(name) ==
  "Welcome **" \o name \o "**! How can I help you today? You can ask about products, track orders, or get recommendations!"

ReplyTrouble == "I'm having trouble connecting. Please try again!"

InitReg ==
  /\ variant = "p005"
  /\ products = FALLBACK_PRODUCTS
  /\ initPending = TRUE
  /\ cart = << >>
  /\ orders = << >>
  /\ chatLog = << BotMsg(Welcome5) >>
  /\ isBackendOffline = FALSE
  /\ calls = << >>
  /\ ev = NoEvent
  /\ userReg = [name |-> "", mobile |-> "", registered |-> FALSE]
  /\ regStep = "name"
  /\ tempName = ""
  /\ view = "shop"
  /\ loading = FALSE
  /\ error = ""
  /\ msgText = ""
  /\ spans = << >>
  /\ isTyping = FALSE

\* handleRegister that appends the welcome twice
handleRegister_Twice(name, mobile) ==
  /\ userReg' = [name |-> name, mobile |-> mobile, registered |-> TRUE]
  /\ chatLog' = chatLog \o << UserMsg(RegUserText(name, mobile)), BotMsg(RegWelcomeText(name)),
                              BotMsg(RegWelcomeText(name)) >>

\* handleRegister(name, mobile)
handleRegister(name, mobile) ==
  /\ userReg' = [name |-> name, mobile |-> mobile, registered |-> TRUE]
  /\ chatLog' = chatLog \o << UserMsg(RegUserText(name, mobile)), BotMsg(RegWelcomeText(name)) >>

\* chat sends of the session so far (the registration line is not one) are fewer than limit
SendsLeft5(limit) == UserSends(chatLog) - (IF userReg.registered THEN 1 ELSE 0) < limit

\* a part_005 handleChat call awaiting POST /chat, with the user it was sent for
Call5(message) ==
  [message |-> message, stage |-> "await", userId |-> userReg.mobile,
   userName |-> userReg.name, registered |-> userReg.registered]

\* handleChat of part_005, up to the await
handleChat5(message) ==
  /\ chatLog' = Append(chatLog, UserMsg(message))
  /\ calls' = Append(calls, Call5(message))
  /\ ev' = Event("handleChat5", message, "remote", Len(cart), "")
  /\ UNCHANGED <<userReg, regStep, tempName>>

\* handleSend that passes every non-blank input on to handleChat
handleSend5_NoGate(input) ==
  /\ variant = "p005"
  /\ IF TrimOf[input] = ""
     THEN /\ ev' = Event("handleSend5", input, "blank", Len(cart), "")
          /\ UNCHANGED <<chatLog, calls, userReg, regStep, tempName>>
     ELSE handleChat5(input)
  /\ UNCHANGED <<auxVars, variant, products, initPending, cart, orders, isBackendOffline>>

\* ChatWidget.handleSend of part_005
handleSend5(input) ==
  /\ variant = "p005"
  /\ IF TrimOf[input] = ""
     THEN \* early return
          /\ ev' = Event("handleSend5", input, "blank", Len(cart), "")
          /\ UNCHANGED <<chatLog, calls, userReg, regStep, tempName>>
     ELSE IF ~userReg.registered
     THEN IF regStep = "name"
          THEN /\ tempName' = input
               /\ regStep' = "mobile"
               /\ ev' = Event("handleSend5", input, "name", Len(cart), "")
               /\ UNCHANGED <<chatLog, calls, userReg>>
          ELSE IF regStep = "mobile"
          THEN IF MobileOkOf[input]
               THEN /\ handleRegister(tempName, TrimOf[input])
                    /\ regStep' = "done"
                    /\ ev' = Event("handleSend5", input, "register", Len(cart), "")
                    /\ UNCHANGED <<calls, tempName>>
               ELSE \* alert("Please enter a valid 10-digit mobile number")
                    /\ ev' = Event("handleSend5", input, "alert", Len(cart), "")
                    /\ UNCHANGED <<chatLog, calls, userReg, regStep, tempName>>
          ELSE UNCHANGED <<chatLog, calls, ev, userReg, regStep, tempName>>
     ELSE handleChat5(input)
  /\ UNCHANGED <<auxVars, variant, products, initPending, cart, orders, isBackendOffline>>

\* handleChat of part_005, after the await, for call k
chatResponse5(k, outcome) ==
  /\ variant = "p005"
  /\ k \in 1..Len(calls)
  /\ LET c == calls[k]
         backendResponse == sendChat(outcome)
         reply == IF backendResponse # NoBody /\ backendResponse.text # ""
                  THEN backendResponse.text ELSE ReplyTrouble
     IN  /\ chatLog' = Append(chatLog, BotMsg(reply))
         /\ calls' = RemoveAt(calls, k)
         /\ ev' = Event("chatResponse5", c.message, outcome.kind, 0, reply)
  /\ UNCHANGED <<auxVars, variant, products, initPending, cart, orders, isBackendOffline, regVars>>

NextReg ==
  \/ \E outcome \in ProductOutcomes : InitData(outcome)
  \/ \E i \in 1..Len(products) : handleAddToCart(i)
  \/ \E i \in 1..Len(cart) : handleRemoveFromCart(i)
  \/ \E x \in RegInputs : (TrimOf[x] # "" => SendsLeft5(MaxSends)) /\ handleSend5(x)
  \/ \E k \in 1..Len(calls), outcome \in ChatOutcomes : chatResponse5(k, outcome)

SpecReg == InitReg /\ [][NextReg]_vars


(***************************************************************************)
(* StyleStore (part_001 and part_003): catalog, quantity cart and orders   *)
(* kept by the backend                                                     *)
(***************************************************************************)
StoreVariants == {"p001", "p003"}

\* product cards the shopper clicks on in the StyleStore, and units per cart line
MaxStorePick == 2
MaxQty == 2

Greeting1 == "Hello! I am connected to the server. How can I help?"

Greeting3 ==
  "Hello! Welcome to StyleStore. I'm your AI assistant. How can I help you today?"

ReplyServerError(v) ==
  IF v = "p001" THEN "Server error. Try again later."
  ELSE "I'm having trouble connecting to my brain right now. Please try again later."

\* Outcomes of the start-up fetches: GET /products rejects, answers non-OK or
\* answers a catalog; `rest` is how GET /user and GET /orders end.
StartOutcomes ==
  { [kind |-> k, body |-> << >>, rest |-> r] :
      k \in {"reject", "non-ok"}, r \in {"ok", "reject", "bad-json"} }
  \cup { [kind |-> "ok", body |-> c, rest |-> r] :
           c \in RemoteCatalogs, r \in {"ok", "reject", "bad-json"} }

\* Outcomes of POST /orders: the fetch rejects, or answers (OK or not) with a
\* body that is JSON or not.
OrderOutcomes ==
  { [kind |-> "reject", json |-> FALSE] }
  \cup { [kind |-> k, json |-> j] : k \in {"ok", "non-ok"}, j \in BOOLEAN }

\* the body the backend answers to POST /orders: the created order, or an
\* error object when the response is not OK
OrderBody(outcome, items, total, id) ==
  IF outcome.kind = "ok"
  THEN [id |-> id, items |-> items, total |-> total, status |-> "Pending"]
  ELSE [id |-> "", items |-> << >>, total |-> 0, status |-> "error"]

InitStore ==
  /\ variant \in StoreVariants
  /\ products = << >>
  /\ initPending = TRUE
  /\ cart = << >>
  /\ orders = << >>
  /\ chatLog = IF variant = "p001" THEN << >> ELSE << BotMsg(Greeting3) >>
  /\ isBackendOffline = FALSE
  /\ calls = << >>
  /\ ev = NoEvent
  /\ userReg = UnusedReg
  /\ regStep = "name"
  /\ tempName = ""
  /\ view = "home"
  /\ loading = TRUE
  /\ error = ""
  /\ msgText = ""
  /\ spans = << >>
  /\ isTyping = FALSE

storeFixed == <<variant, isBackendOffline, regVars, msgText, spans>>

\* the page (catalog, cart, chat widget) is on screen
PageShown == ~loading /\ (variant = "p001" => error = "")

\* init of part_001: Promise.all of the three fetches, then the state updates
init(outcome) ==
  /\ variant = "p001"
  /\ initPending
  /\ initPending' = FALSE
  /\ loading' = FALSE
  /\ ev' = Event("init", "", outcome.kind, 0, "")
  /\ IF outcome.kind = "ok" /\ outcome.rest = "ok"
     THEN \* setOrders(await orderRes.json()): the backend holds no earlier order
          /\ products' = outcome.body
          /\ chatLog' = << BotMsg(Greeting1) >>
          /\ UNCHANGED <<orders, error>>
     ELSE IF outcome.kind = "ok" /\ outcome.rest = "bad-json"
     THEN \* setProducts ran before userRes.json() threw
          /\ products' = outcome.body
          /\ error' = "Could not connect to Backend."
          /\ UNCHANGED <<orders, chatLog>>
     ELSE /\ error' = "Could not connect to Backend."
          /\ UNCHANGED <<products, orders, chatLog>>
  /\ UNCHANGED <<storeFixed, cart, calls, view, isTyping>>

\* fetchData of part_003: the catalog is critical, user and orders are not
fetchData(outcome) ==
  /\ variant = "p003"
  /\ initPending
  /\ initPending' = FALSE
  /\ loading' = FALSE
  /\ ev' = Event("fetchData", "", outcome.kind, 0, "")
  /\ IF outcome.kind = "ok"
     THEN products' = outcome.body /\ UNCHANGED error
     ELSE error' = "Failed to connect to server" /\ UNCHANGED products
  /\ UNCHANGED <<storeFixed, cart, orders, chatLog, calls, view, isTyping>>

\* index of the cart line of product id, 0 if none (prev.find)
LineOf(c, id) ==
  IF \E i \in 1..Len(c) : c[i].id = id
  THEN CHOOSE i \in 1..Len(c) : c[i].id = id /\ \A j \in 1..(i - 1) : c[j].id # id
  ELSE 0

CartItem(product) ==
  [id |-> product.id, title |-> product.title, price |-> product.price,
   category |-> product.category, quantity |-> 1]

\* the functional update of addToCart, appending a second line for a product already in the cart
AddLine_AlwaysAppend(prev, product) == Append(prev, CartItem(product))

\* the functional update of addToCart
AddLine(prev, product) ==
  IF LineOf(prev, product.id) # 0
  THEN [i \in 1..Len(prev) |->
          IF prev[i].id = product.id
          THEN [prev[i] EXCEPT !.quantity = prev[i].quantity + 1] ELSE prev[i]]
  ELSE Append(prev, CartItem(product))

\* addToCart, from a product card of the home view
addToCart(i) ==
  /\ variant \in StoreVariants
  /\ PageShown
  /\ view = "home"
  /\ i \in 1..Len(products)
  /\ i <= MaxStorePick
  /\ LET l == LineOf(cart, products[i].id) IN l # 0 => cart[l].quantity < MaxQty
  /\ cart' = AddLine(cart, products[i])
  /\ UNCHANGED <<storeFixed, products, initPending, orders, chatLog, calls, ev, view,
                 loading, error, isTyping>>

\* setView, from the navigation bar
setView(v) ==
  /\ variant \in StoreVariants
  /\ PageShown
  /\ v # view
  /\ view' = v
  /\ UNCHANGED <<storeFixed, products, initPending, cart, orders, chatLog, calls, ev,
                 loading, error, isTyping>>

RECURSIVE LineTotal(_)
\* cart.reduce((sum, i) => sum + (i.price * i.quantity), 0)
LineTotal(c) == IF Len(c) = 0 THEN 0 ELSE c[1].price * c[1].quantity + LineTotal(Tail(c))

\* orders in the history and POST /orders requests in flight
OrdersInHand == Len(orders) + Len(SelectSeq(calls, LAMBDA c : c.stage = "order"))

\* placeOrder, up to `await fetch(.../orders)`: the button shows for a non-empty cart
placeOrder ==
  /\ variant \in StoreVariants
  /\ PageShown
  /\ view = "cart"
  /\ Len(cart) > 0
  /\ calls' = Append(calls, [message |-> "", stage |-> "order", cart |-> cart,
                             total |-> LineTotal(cart)])
  /\ ev' = Event("placeOrder", "", "wait", Len(cart), "")
  /\ UNCHANGED <<storeFixed, products, initPending, cart, orders, chatLog, view,
                 loading, error, isTyping>>

\* whether placeOrder takes the response as a created order: part_001 parses
\* any response that is JSON, part_003 only an OK one
TakenAsOrder(v, outcome) ==
  IF v = "p001" THEN outcome.kind # "reject" /\ outcome.json
  ELSE outcome.kind = "ok" /\ outcome.json

\* placeOrder, after the await, for call k
placeOrderResponse(k, outcome, id) ==
  /\ variant \in StoreVariants
  /\ k \in 1..Len(calls)
  /\ calls[k].stage = "order"
  /\ calls' = RemoveAt(calls, k)
  /\ LET rule == IF outcome.kind = "reject" THEN "reject"
                 ELSE IF outcome.json THEN outcome.kind ELSE outcome.kind \o "-text"
     IN  ev' = Event("placeOrderResponse", "", rule, Len(calls[k].cart), "")
  /\ IF TakenAsOrder(variant, outcome)
     THEN LET newOrder == OrderBody(outcome, calls[k].cart, calls[k].total, id)
          IN  /\ orders' = <<newOrder>> \o orders
              /\ cart' = << >>
              /\ view' = "profile"
     ELSE \* alert("Failed to place order")
          UNCHANGED <<orders, cart, view>>
  /\ UNCHANGED <<storeFixed, products, initPending, chatLog, loading, error, isTyping>>

StoreMessages == {"Where is my order?", "  "}

\* sendChatMessage / handleChatSubmit, up to `await fetch(.../chat)`
sendChatMessage(input) ==
  /\ variant \in StoreVariants
  /\ PageShown
  /\ Trim(input) # ""
  /\ chatLog' = Append(chatLog, UserMsg(input))
  /\ isTyping' = TRUE
  /\ calls' = Append(calls, [message |-> input, stage |-> "chat", cart |-> cart, total |-> 0])
  /\ ev' = Event("sendChatMessage", input, "wait", Len(cart), "")
  /\ UNCHANGED <<storeFixed, products, initPending, cart, orders, view, loading, error>>

\* sendChatMessage / handleChatSubmit, after the await; `parsed` says whether
\* the body of a non-OK response is JSON (part_001 does not test res.ok)
sendChatResponse(k, outcome, parsed) ==
  /\ variant \in StoreVariants
  /\ k \in 1..Len(calls)
  /\ calls[k].stage = "chat"
  /\ calls' = RemoveAt(calls, k)
  /\ LET reply ==
           IF outcome.kind = "ok" THEN outcome.body.text
           ELSE IF outcome.kind = "non-ok" /\ variant = "p001" /\ parsed
           THEN ""   \* data.text of an error body is undefined
           ELSE ReplyServerError(variant)
     IN  /\ chatLog' = Append(chatLog, BotMsg(reply))
         /\ ev' = Event("sendChatResponse", calls[k].message, outcome.kind, 0, reply)
  /\ isTyping' = FALSE   \* finally { setIsTyping(false) }
  /\ UNCHANGED <<storeFixed, products, initPending, cart, orders, view, loading, error>>

NextStore ==
  \/ \E outcome \in StartOutcomes : init(outcome)
  \/ \E outcome \in StartOutcomes : fetchData(outcome)
  \/ \E i \in 1..Len(products) : addToCart(i)
  \/ \E v \in {"home", "cart", "profile"} : setView(v)
  \/ OrdersInHand < MaxOrders /\ placeOrder
  \/ \E k \in 1..Len(calls), outcome \in OrderOutcomes, id \in OrderIds :
       placeOrderResponse(k, outcome, id)
  \/ \E m \in StoreMessages : UserSends(chatLog) < MaxSends /\ sendChatMessage(m)
  \/ \E k \in 1..Len(calls), outcome \in ChatOutcomes, parsed \in BOOLEAN :
       sendChatResponse(k, outcome, parsed)

SpecStore == InitStore /\ [][NextStore]_vars

(***************************************************************************)
(* parseMessage of the chat widget (part_002, part_005)                    *)
(***************************************************************************)
\* longest generated message text
MaxTextLen == 4

TextChars == {"*", "a", "b"}

RECURSIVE TextsOfLen(_)
TextsOfLen(n) ==
  IF n = 0 THEN {""} ELSE { c \o t : c \in TextChars, t \in TextsOfLen(n - 1) }

\* Message texts handed to parseMessage (none holds a line break, which the
\* `.` of the pattern would not cross).
Texts ==
  UNION { TextsOfLen(n) : n \in 0..MaxTextLen }
  \cup { "Hello **World**!", "**Oops", "Added **Gold Plated Ring** to cart.",
         "**a** and **b**", "a ** b", "**a****" }

\* positions where "**" stands in s
MarkersIn(s) == { i \in 1..(Len(s) - 1) : SubSeq(s, i, i + 1) = "**" }

Least(S) == CHOOSE x \in S : \A y \in S : x <= y

RECURSIVE SplitBold(_)
\* text.split(/(\*\*.*?\*\*)/g): the pieces between the matches, with the
\* matches themselves (the pattern is one capture group) in between
SplitBold(s) ==
  LET opens == { i \in MarkersIn(s) : \E j \in MarkersIn(s) : j >= i + 2 } IN
  IF opens = {} THEN << s >>
  ELSE LET i == Least(opens)
           j == Least({ k \in MarkersIn(s) : k >= i + 2 })
       IN  << SubSeq(s, 1, i - 1), SubSeq(s, i, j + 1) >>
             \o SplitBold(SubSeq(s, j + 2, Len(s)))

\* part.slice(2, -2)
Slice2(part) == IF Len(part) >= 4 THEN SubSeq(part, 3, Len(part) - 2) ELSE ""

\* part.endsWith(t)
EndsWith(s, t) == Len(s) >= Len(t) /\ SubSeq(s, Len(s) - Len(t) + 1, Len(s)) = t

\* the element parseMessage maps a piece to: a bold span or the piece itself
SpanOf(part) ==
  IF StartsWith(part, "**") /\ EndsWith(part, "**")
  THEN [bold |-> TRUE, text |-> Slice2(part)]
  ELSE [bold |-> FALSE, text |-> part]

parseMessage(s) ==
  LET parts == SplitBold(s) IN [k \in 1..Len(parts) |-> SpanOf(parts[k])]

InitParse ==
  /\ variant \in {"p002", "p005"}
  /\ msgText \in Texts
  /\ spans = << >>
  /\ products = FALLBACK_PRODUCTS
  /\ initPending = TRUE
  /\ cart = << >>
  /\ orders = << >>
  /\ chatLog = << >>
  /\ isBackendOffline = FALSE
  /\ calls = << >>
  /\ ev = NoEvent
  /\ userReg = UnusedReg
  /\ regStep = "name"
  /\ tempName = ""
  /\ view = "shop"
  /\ loading = FALSE
  /\ error = ""
  /\ isTyping = FALSE

\* the chat widget renders a message: {parseMessage(msg.text)}
renderMessage ==
  /\ spans = << >>
  /\ spans' = parseMessage(msgText)
  /\ UNCHANGED <<variant, products, initPending, cart, orders, chatLog, isBackendOffline,
                 calls, ev, regVars, view, loading, error, msgText, isTyping>>

NextParse == renderMessage

SpecParse == InitParse /\ [][NextParse]_vars

(***************************************************************************)
(* All front-ends together                                                 *)
(***************************************************************************)
InitAll == Init \/ InitReg \/ InitStore

NextAll == Next \/ NextReg \/ NextStore

SpecAll == InitAll /\ [][NextAll]_vars

(***************************************************************************)
(* Overlapping requests: no front-end disables its chat input or its Place *)
(* Order button while a request is awaited, so a second call can start     *)
(* before the first has resumed.                                           *)
(***************************************************************************)
\* requests of one kind issued per session when they may overlap
MaxOverlap == 2

\* texts sent when sends overlap: one no rule takes, one that adds a product
OverlapMessages == {"hello", "Buy Gold Plated Ring"}

\* inputs of part_005 when sends overlap: a name, a mobile number, a question
OverlapInputs5 == {"Asha", "9876543210", "show my cart"}

\* texts sent to the StyleStore chat when sends overlap
OverlapStoreMessages == {"Where is my order?"}

NextRace ==
  \/ \E outcome \in ProductOutcomes : InitData(outcome)
  \/ \E i \in 1..Len(products) : handleAddToCart(i)
  \/ \E m \in OverlapMessages : UserSends(chatLog) < MaxOverlap /\ handleChat(m)
  \/ \E m \in OverlapMessages : UserSends(chatLog) < MaxOverlap /\ handleChat4(m)
  \/ \E k \in 1..Len(calls), outcome \in ChatOutcomes : chatResponse(k, outcome)
  \/ \E k \in 1..Len(calls) : chatFallback(k)
  \/ \E k \in 1..Len(calls) : handleChat4Resume(k)
  \/ \E x \in OverlapInputs5 : SendsLeft5(MaxOverlap) /\ handleSend5(x)
  \/ \E k \in 1..Len(calls), outcome \in ChatOutcomes : chatResponse5(k, outcome)
  \/ \E outcome \in StartOutcomes : init(outcome)
  \/ \E outcome \in StartOutcomes : fetchData(outcome)
  \/ \E m \in OverlapStoreMessages : UserSends(chatLog) < MaxOverlap /\ sendChatMessage(m)
  \/ \E k \in 1..Len(calls), outcome \in ChatOutcomes, parsed \in BOOLEAN :
       sendChatResponse(k, outcome, parsed)

SpecRace == InitAll /\ [][NextRace]_vars

\* the StyleStore with Place Order pressed again while POST /orders is awaited
NextOrderRace ==
  \/ \E outcome \in StartOutcomes : init(outcome)
  \/ \E outcome \in StartOutcomes : fetchData(outcome)
  \/ \E i \in 1..Len(products) : addToCart(i)
  \/ \E v \in {"home", "cart", "profile"} : setView(v)
  \/ OrdersInHand < MaxOverlap /\ placeOrder
  \/ \E k \in 1..Len(calls), outcome \in OrderOutcomes, id \in OrderIds :
       placeOrderResponse(k, outcome, id)

SpecOrderRace == InitStore /\ [][NextOrderRace]_vars

(***************************************************************************)
(* The chat of App.tsx, part_002 and part_005 with every request           *)
(* eventually answered or rejected and every timer eventually firing       *)
(***************************************************************************)
\* texts sent: one no rule takes, one that adds a product, one a local rule takes
LiveMessages == OverlapMessages \cup {"what is in cart"}

InitLive == (Init /\ variant \in {"app", "p002"}) \/ InitReg

\* the cart has room for the product of every pending call and one more
CartHasRoom == Len(cart) + Len(calls) < MaxCart

NextLive ==
  \/ \E outcome \in ProductOutcomes : InitData(outcome)
  \/ \E i \in 1..Len(products) : CartHasRoom /\ handleAddToCart(i)
  \/ \E m \in LiveMessages :
       UserSends(chatLog) < MaxOverlap /\ CartHasRoom /\ handleChat(m)
  \/ \E k \in 1..Len(calls), outcome \in ChatOutcomes : chatResponse(k, outcome)
  \/ \E k \in 1..Len(calls) : chatFallback(k)
  \/ \E x \in OverlapInputs5 : SendsLeft5(MaxOverlap) /\ handleSend5(x)
  \/ \E k \in 1..Len(calls), outcome \in ChatOutcomes : chatResponse5(k, outcome)

\* fetch settles (apiService.sendChat returns the body or null) and the
\* 600 ms setTimeout of the fallback fires
SpecLive ==
  /\ InitLive
  /\ [][NextLive]_vars
  /\ WF_vars(\E k \in 1..Len(calls), outcome \in ChatOutcomes : chatResponse(k, outcome))
  /\ WF_vars(\E k \in 1..Len(calls) : chatFallback(k))
  /\ WF_vars(\E k \in 1..Len(calls), outcome \in ChatOutcomes : chatResponse5(k, outcome))

(***************************************************************************)
(* Properties                                                              *)
(***************************************************************************)
\* the step appends the user message m to the transcript (a chat send of m)
Sent(m) == Len(chatLog') > Len(chatLog) /\ chatLog'[Len(chatLog) + 1] = UserMsg(m)

ClearOf == [m \in AllMessages |-> MatchesClear(LowerOf[m])]

PlaceOf == [m \in AllMessages |-> MatchesPlace(LowerOf[m])]

\* the message contains "add", "buy", "place" or "checkout"
ActionVerbOf ==
  [m \in AllMessages |->
     \E w \in {"add", "buy", "place", "checkout"} : StrIncludes(LowerOf[m], w)]

\* C1: in App.tsx and part_002 a message that matches both the clear-cart and
\* the place-order rule, such as "clear my cart and place order", is taken by
\* the clear-cart rule alone: the cart is emptied, no order is created, the
\* only reply is the cart-emptied one and nothing is sent to the backend; and
\* no send is answered by more than one local rule.
C1_ClearBeforePlace ==
  [][\A m \in AllMessages :
       (variant \in {"app", "p002"} /\ Sent(m)) =>
         /\ Len(chatLog') <= Len(chatLog) + 2
         /\ (ClearOf[m] /\ PlaceOf[m]) =>
              /\ cart' = << >>
              /\ orders' = orders
              /\ calls' = calls
              /\ chatLog' = chatLog \o << UserMsg(m), BotMsg(ReplyCleared) >>]_vars

\* C1 witness: "clear my cart and place order" was sent with a non-empty
\* cart, which is now empty, and there is no order.
C1_Witness ==
  /\ ev.op = "handleChat"
  /\ ev.msg = "clear my cart and place order"
  /\ ev.cartLen0 > 0
  /\ cart = << >>
  /\ orders = << >>
  /\ chatLog[Len(chatLog)] = BotMsg(ReplyCleared)

\* C2: in App.tsx and part_002 the show-cart rule never answers a message
\* that contains "add", "buy", "place" or "checkout".
C2_ShowCartNeverForActionVerbs ==
  (variant \in {"app", "p002"} /\ ev.op = "handleChat" /\ ev.rule = "show")
    => ~ActionVerbOf[ev.msg]

\* C3: "add this to my cart" is not taken by the show-cart rule, and with the
\* backend unreachable App.tsx answers it with the add-to-cart outcome
\* (product added, or product not found), not with the generic offline reply.
C3_AddThisToMyCart ==
  (variant = "app" /\ ev.msg = "add this to my cart") =>
    /\ ev.op = "handleChat" => ev.rule = "remote"
    /\ ev.op = "chatFallback" => ev.rule \in {"add", "not-found"}

\* C4: in App.tsx and part_002 a place-order/checkout message handled while
\* the cart is empty is answered with the cart-is-empty reply, creates no
\* order and leaves cart and order history unchanged; and processOrder on an
\* empty cart returns null and changes nothing.
C4_PlaceOrderOnEmptyCart ==
  [][/\ \A m \in AllMessages :
          (variant \in {"app", "p002"} /\ Sent(m) /\ ~ClearOf[m] /\ PlaceOf[m]
             /\ cart = << >>) =>
            /\ chatLog' = chatLog \o << UserMsg(m), BotMsg(ReplyPlaceEmpty(variant)) >>
            /\ cart' = cart
            /\ orders' = orders
            /\ calls' = calls
     /\ \A id \in OrderIds :
          LET r == processOrder(<< >>, orders, id)
          IN  r.order = NoOrder /\ r.orders = orders /\ ~r.clearsCart]_vars

\* C4 witness: App.tsx answered "Place Order" on an empty cart.
C4_Witness ==
  /\ variant = "app"
  /\ ev.op = "handleChat"
  /\ ev.msg = "Place Order"
  /\ ev.rule = "place-empty"
  /\ ev.cartLen0 = 0
  /\ orders = << >>
  /\ chatLog[Len(chatLog)] = BotMsg(ReplyPlaceEmpty("app"))

\* C5: whenever an order is created (processOrder ran on a non-empty cart),
\* exactly one order is put at the front of the order history, the older
\* orders keep their places, its items are the cart entries at that moment,
\* and the cart is empty afterwards.
C5_OrderSnapshotsCart ==
  [][Len(orders') > Len(orders) =>
       /\ Len(orders') = Len(orders) + 1
       /\ Tail(orders') = orders
       /\ cart # << >>
       /\ orders'[1].items = cart
       /\ cart' = << >>]_vars

\* C6 as stated: in App.tsx the total of every order equals the sum of the
\* prices of its items.
C6_TotalIsExactSum ==
  variant = "app" => \A i \in 1..Len(orders) : orders[i].total = SumPrices(orders[i].items)

\* prices with at most two decimals
WholeCents(c) == \A i \in 1..Len(c) : c[i].price % 10 = 0

\* C6 amended: in App.tsx the total of the order created from a non-empty
\* cart is the sum of the cart's prices rounded to two decimals (the exact
\* sum when every price has at most two decimals), and the cart is empty
\* afterwards.
C6_TotalIsRoundedSum ==
  [][(variant = "app" /\ Len(orders') > Len(orders)) =>
       LET total == orders'[1].total
           sum == SumPrices(cart)
       IN  /\ total % 10 = 0
           /\ sum - 5 < total /\ total <= sum + 5
           /\ WholeCents(cart) => total = sum
           /\ cart' = << >>]_vars

\* C6 witness: App.tsx holds an order of two items whose prices do not add
\* up to whole cents, and the cart is empty.
C6_Witness ==
  /\ variant = "app"
  /\ cart = << >>
  /\ \E i \in 1..Len(orders) :
       /\ Len(orders[i].items) = 2
       /\ ~WholeCents(orders[i].items)
       /\ orders[i].total # SumPrices(orders[i].items)

\* the text consists of blanks only (the empty text included)
IsBlank(s) == \A i \in 1..Len(s) : CharAt(s, i) = " "

BlankInputOf == [x \in RegInputs |-> IsBlank(x)]

\* the text is exactly ten decimal digits
TenDigits(s) == Len(s) = 10 /\ \A i \in 1..10 : IsDigit(CharAt(s, i))

\* the text is ten decimal digits with any number of blanks around them
TenDigitsPadded(s) ==
  \E i \in 1..Len(s) :
    /\ i + 9 <= Len(s)
    /\ \A j \in 1..Len(s) :
         IF j \in i..(i + 9) THEN IsDigit(CharAt(s, j)) ELSE CharAt(s, j) = " "

TenDigitsOf == [x \in RegInputs |-> TenDigits(x)]

TenDigitsPaddedOf == [x \in RegInputs |-> TenDigitsPadded(x)]

\* the ten digits inside a padded phone input
DigitsOf ==
  [x \in RegInputs |->
     IF TenDigitsPadded(x)
     THEN LET i == CHOOSE i \in 1..Len(x) : IsDigit(CharAt(x, i)) /\ (i = 1 \/ CharAt(x, i - 1) = " ")
          IN  SubSeq(x, i, i + 9)
     ELSE ""]

\* the step is a ChatWidget.handleSend of part_005 with input x
Submitted(x) == ev' # ev /\ ev'.op = "handleSend5" /\ ev'.msg = x

WelcomeMessages(log) ==
  SelectSeq(log, LAMBDA m : m.sender = "bot" /\ StartsWith(m.text, "Welcome **"))

\* C7: in part_005, while the user is not registered no input reaches
\* handleChat or POST /chat: there is no pending chat call and no user chat
\* message in the transcript, a submitted input only moves the registration
\* steps, and every chat call was made for a registered user.
C7_NoChatBeforeRegistration ==
  /\ ~userReg.registered =>
       /\ calls = << >>
       /\ UserSends(chatLog) = 0
       /\ ev.op \in {"init", "handleSend5"}
       /\ ev.rule \in {"", "blank", "name", "alert"}
  /\ \A k \in 1..Len(calls) :
       calls[k].registered /\ calls[k].userId = userReg.mobile /\ userReg.registered

\* C7 witness: an unregistered user has typed a chat question twice, it was
\* taken as the name and then refused as a phone number, and nothing was sent.
C7_Witness ==
  /\ ~userReg.registered
  /\ tempName = "show my cart"
  /\ ev.op = "handleSend5"
  /\ ev.msg = "show my cart"
  /\ ev.rule = "alert"
  /\ calls = << >>
  /\ chatLog = << BotMsg(Welcome5) >>

\* C8 as stated: only a phone input of exactly ten decimal digits registers
\* the user.
C8_OnlyExactlyTenDigitsRegister ==
  (ev.op = "handleSend5" /\ ev.rule = "register") => TenDigitsOf[ev.msg]

\* C8 amended: at the mobile step, a phone input that is not ten decimal
\* digits once the blanks around it are removed is rejected: the user stays
\* unregistered and at the mobile step, the captured name is kept and the
\* transcript is unchanged; an input of ten digits, with or without blanks
\* around it, registers the user under the captured name and those digits.
C8_TrimmedTenDigitsRegister ==
  [][\A x \in RegInputs :
       (~userReg.registered /\ regStep = "mobile" /\ Submitted(x)) =>
         IF TenDigitsPaddedOf[x]
         THEN /\ userReg' = [name |-> tempName, mobile |-> DigitsOf[x], registered |-> TRUE]
              /\ regStep' = "done"
         ELSE /\ userReg' = userReg
              /\ regStep' = "mobile"
              /\ tempName' = tempName
              /\ chatLog' = chatLog]_vars

\* C8 witness: "12345" was refused at the mobile step and the name is kept.
C8_Witness ==
  /\ ev.op = "handleSend5"
  /\ ev.msg = "12345"
  /\ ev.rule = "alert"
  /\ ~userReg.registered
  /\ regStep = "mobile"
  /\ tempName = "Asha"
  /\ chatLog = << BotMsg(Welcome5) >>

\* C9: in part_005 the user is registered at most once: once registered the
\* registration never changes again, and the transcript holds exactly one
\* welcome message, naming the captured name, from the moment of registration
\* on and none before.
C9_RegisteredOnce ==
  [][/\ userReg.registered => userReg' = userReg
     /\ LET w == WelcomeMessages(chatLog')
        IN  IF userReg'.registered
            THEN /\ Len(w) = 1
                 /\ userReg'.name = tempName'
                 /\ StrIncludes(w[1].text, tempName')
            ELSE w = << >>]_vars

\* C9 witness: after registering, the user typed a phone number again; it
\* went out as a chat message and there is still one welcome message.
C9_Witness ==
  /\ userReg.registered
  /\ userReg.name = "Asha"
  /\ ev.op = "handleChat5"
  /\ ev.msg = "9876543210"
  /\ Len(WelcomeMessages(chatLog)) = 1

\* C10 as stated: a name captured at the name step has at least two
\* characters.
C10_NameHasTwoCharacters ==
  regStep # "name" => Len(tempName) >= 2

\* C10 amended: at the name step an empty or all-blank input is rejected:
\* the gate stays at the name step and no name is captured; every other
\* input, a single character included, is captured as the name and moves the
\* gate to the mobile step.
C10_BlankNameRejected ==
  [][\A x \in RegInputs :
       (~userReg.registered /\ regStep = "name" /\ Submitted(x)) =>
         IF BlankInputOf[x]
         THEN regStep' = "name" /\ tempName' = "" /\ tempName = ""
         ELSE regStep' = "mobile" /\ tempName' = x]_vars

\* C10 witness: an all-blank name was rejected at the name step.
C10_Witness ==
  /\ ev.op = "handleSend5"
  /\ ev.msg = "  "
  /\ ev.rule = "blank"
  /\ regStep = "name"
  /\ tempName = ""
  /\ ~userReg.registered

IsPrefix(a, b) == Len(a) <= Len(b) /\ SubSeq(b, 1, Len(a)) = a

\* C11: the chat transcript is append-only in every front-end: each step
\* (chat send, backend response, local fallback, checkout, registration,
\* style-match, start-up) leaves the transcript it found as a prefix of the
\* transcript it leaves, so every earlier transcript is a prefix of every
\* later one.
C11_TranscriptAppendOnly ==
  [][IsPrefix(chatLog, chatLog')]_vars

\* C11 witness: in part_002 a style-match request and its answer were
\* appended, and then the checkout confirmation, behind the welcome message.
C11_Witness ==
  /\ variant = "p002"
  /\ Len(chatLog) = 4
  /\ chatLog[1] = BotMsg(WelcomeMessage)
  /\ chatLog[2].sender = "user"
  /\ ev.op = "styleResponse"
  /\ chatLog[3] = BotMsg(ev.reply)
  /\ \E id \in OrderIds : chatLog[4] = BotMsg(ReplyCheckout("p002", id))

\* the message matches the add/buy rule of App.tsx
AddOrBuyOf ==
  [m \in AllMessages |->
     StrIncludes(LowerOf[m], "add to cart") \/ StrIncludes(LowerOf[m], "buy")]

\* the step ends call k of App.tsx, whose POST /chat had failed, with the local fallback
FallbackEnds(k) ==
  /\ variant = "app"
  /\ k \in 1..Len(calls)
  /\ calls[k].stage = "delay"
  /\ calls' = RemoveAt(calls, k)

\* the step is the failure of the POST /chat of call k of App.tsx
PostFails(k) ==
  /\ variant = "app"
  /\ k \in 1..Len(calls)
  /\ calls[k].stage = "await"
  /\ Len(calls') = Len(calls)
  /\ calls'[k].stage = "delay"

\* C12: in App.tsx, when POST /chat is rejected or answers non-OK, the
\* failure itself changes neither cart, orders nor transcript, and the
\* fallback that follows appends exactly one bot reply with non-empty text,
\* leaves the order history unchanged, and changes the cart only by appending
\* one product of the catalog, and only when the message matched the add/buy
\* rule.
C12_FailedPostStillReplies ==
  [][\A k \in 1..Len(calls) :
       /\ PostFails(k) => (cart' = cart /\ orders' = orders /\ chatLog' = chatLog)
       /\ FallbackEnds(k) =>
            LET c == calls[k] IN
            /\ Len(chatLog') = Len(chatLog) + 1
            /\ IsPrefix(chatLog, chatLog')
            /\ chatLog'[Len(chatLog')].sender = "bot"
            /\ chatLog'[Len(chatLog')].text # ""
            /\ orders' = orders
            /\ \/ cart' = cart
               \/ /\ AddOrBuyOf[c.message]
                  /\ \E i \in 1..Len(c.products) : cart' = Append(cart, c.products[i])]_vars

\* C12 witness: with the backend down App.tsx answered "Buy Gold Plated Ring"
\* from the local fallback and put the ring in the cart.
C12_Witness ==
  /\ variant = "app"
  /\ isBackendOffline
  /\ ev.op = "chatFallback"
  /\ ev.msg = "Buy Gold Plated Ring"
  /\ ev.rule = "add"
  /\ Len(cart) = ev.cartLen0 + 1
  /\ cart[Len(cart)].title = "Gold Plated Ring"
  /\ chatLog[Len(chatLog)] = BotMsg(ev.reply)
  /\ orders = << >>

\* the step ends call k, a placeOrder of the StyleStore, on a failed POST
\* /orders: the fetch was rejected or the response was not OK
OrderPostFailed(k) ==
  /\ variant \in StoreVariants
  /\ k \in 1..Len(calls)
  /\ calls[k].stage = "order"
  /\ calls' = RemoveAt(calls, k)
  /\ ev'.op = "placeOrderResponse"
  /\ ev'.rule \in {"reject", "non-ok", "non-ok-text"}

\* C13: in placeOrder of part_001 and part_003, when POST /orders is rejected
\* or answers non-2xx, no order is added to the order history, the cart is
\* unchanged and the view does not change.
C13_FailedOrderPostChangesNothing ==
  [][\A k \in 1..Len(calls) :
       OrderPostFailed(k) => (orders' = orders /\ cart' = cart /\ view' = view)]_vars

\* C14: in App.tsx, part_002, part_005 and the StyleStore of part_003
\* (fetchData), which fetch GET /products at start-up, when that fetch fails
\* the catalog holds the hardcoded fallback list after the initial load, and
\* so is not empty.
C14_FallbackCatalogAfterFailedFetch ==
  [][/\ (variant \in {"app", "p002", "p005"} /\ initPending /\ ~initPending'
           /\ isBackendOffline')
        => (products' = FALLBACK_PRODUCTS /\ products' # << >>)
     /\ (variant = "p003" /\ initPending /\ ~initPending'
           /\ ev'.rule \in {"reject", "non-ok"})
        => (products' = FALLBACK_PRODUCTS /\ products' # << >>)]_vars

UniqueIds(c) == \A i, j \in 1..Len(c) : c[i].id = c[j].id => i = j

\* c2 is c with one unit of one product added: a new line of quantity 1 at
\* the end for a product not in c, or one line of c with its quantity up by
\* one and every other line as it was
OneUnitAdded(c, c2) ==
  \/ /\ Len(c2) = Len(c) + 1
     /\ SubSeq(c2, 1, Len(c)) = c
     /\ c2[Len(c2)].quantity = 1
     /\ \A i \in 1..Len(c) : c[i].id # c2[Len(c2)].id
  \/ /\ Len(c2) = Len(c)
     /\ \E i \in 1..Len(c) :
          /\ c2[i] = [c[i] EXCEPT !.quantity = c[i].quantity + 1]
          /\ \A j \in 1..Len(c) : j # i => c2[j] = c[j]

\* C15: in the StyleStore (part_001, part_003) the cart always has at most
\* one line per product id and every quantity is at least 1; the cart only
\* changes by being emptied (an order was placed) or by one unit being added,
\* where adding a product already in the cart raises that line's quantity by
\* exactly 1 and leaves the number of lines and all other lines unchanged.
C15_QuantityCartUniquePerProduct ==
  [][(variant \in StoreVariants) =>
       /\ UniqueIds(cart')
       /\ \A i \in 1..Len(cart') : cart'[i].quantity >= 1
       /\ (cart' # cart) => (cart' = << >> \/ OneUnitAdded(cart, cart'))]_vars

\* C15 witness: after an order was placed, the cart holds two lines, the
\* first one added twice.
C15_Witness ==
  /\ variant \in StoreVariants
  /\ orders # << >>
  /\ Len(cart) = 2
  /\ cart[1].quantity = 2
  /\ cart[2].quantity = 1
  /\ cart[1].id # cart[2].id

\* s holds a matched pair of ** markers: an opening one and, after it, a
\* closing one that does not overlap it
HasPair(s) ==
  \E i, j \in 1..(Len(s) - 1) :
    j >= i + 2 /\ SubSeq(s, i, i + 1) = "**" /\ SubSeq(s, j, j + 1) = "**"

HasMarker(s) == \E i \in 1..(Len(s) - 1) : SubSeq(s, i, i + 1) = "**"

RECURSIVE Unparse(_)
\* the text a span sequence stands for: bold spans inside ** markers, plain
\* spans as they are
Unparse(sp) ==
  IF Len(sp) = 0 THEN ""
  ELSE (IF sp[1].bold THEN "**" \o sp[1].text \o "**" ELSE sp[1].text) \o Unparse(Tail(sp))

\* C16: what parseMessage renders is the text cut into segments: a span is
\* bold only if it is a segment delimited by a matched pair of ** (shown
\* without the two markers), every other segment is plain and unchanged, and
\* no plain span holds a matched pair; "Hello **World**!" gives plain
\* "Hello ", bold "World", plain "!".
C16_BoldOnlyForDelimitedSegments ==
  spans # << >> =>
    /\ Unparse(spans) = msgText
    /\ \A k \in 1..Len(spans) : ~spans[k].bold => ~HasPair(spans[k].text)
    /\ msgText = "Hello **World**!" =>
         spans = << [bold |-> FALSE, text |-> "Hello "], [bold |-> TRUE, text |-> "World"],
                    [bold |-> FALSE, text |-> "!"] >>

\* C17: a text with ** markup but no matched pair of markers ("**Oops", "**",
\* "***") is rendered as one plain span holding all of its characters.
C17_UnmatchedMarkupStaysPlain ==
  (spans # << >> /\ HasMarker(msgText) /\ ~HasPair(msgText)) =>
    spans = << [bold |-> FALSE, text |-> msgText] >>

\* C18: handleChat of App.tsx sends a message to POST /chat only when none
\* of the local rules clear-cart, place-order, show-cart and add/buy matched
\* it: no message matching the add/buy rule is sent to the backend.
C18_AddOrBuyNeverDelegated ==
  (variant = "app" /\ ev.op = "handleChat" /\ ev.rule = "remote") =>
    /\ ~ClearOf[ev.msg]
    /\ ~PlaceOf[ev.msg]
    /\ ~AddOrBuyOf[ev.msg]

\* C19: in part_004 every message that contains "clear" or "empty" together
\* with "cart", its suggested question "Clear my cart" included, empties the
\* cart and is answered with the cart-emptied confirmation.
C19_DemoClearsCart ==
  [][\A k \in 1..Len(calls) :
       (variant = "p004" /\ calls[k].stage = "delay" /\ calls' = RemoveAt(calls, k)
          /\ ClearOf[calls[k].message]) =>
         /\ cart' = << >>
         /\ chatLog' = Append(chatLog, BotMsg(ReplyCleared))]_vars

\* the catalog entries a message names: those whose lowercased title, or
\* whose category up to the first apostrophe, is part of the lowercased message
NamedIn ==
  [c \in Catalogs, m \in AllMessages |->
     { i \in 1..Len(c) :
         \/ StrIncludes(LowerOf[m], ToLowerCase(c[i].title))
         \/ StrIncludes(LowerOf[m], SplitFirst(ToLowerCase(c[i].category), "'")) }]

\* C20: in the add/buy branch of the local fallback of App.tsx, the product
\* appended to the cart is the first entry, in the order of the catalog the
\* call was made with, whose lowercased title or category token is part of
\* the lowercased message; if no entry matches, the cart is unchanged and the
\* reply says that the product could not be found.
C20_FirstMatchingProductWins ==
  [][\A k \in 1..Len(calls) :
       (FallbackEnds(k) /\ AddOrBuyOf[calls[k].message]) =>
         LET c == calls[k]
             named == NamedIn[c.products, c.message]
         IN  IF named = {}
             THEN /\ cart' = cart
                  /\ chatLog' = Append(chatLog, BotMsg(ReplyNotFound("app")))
             ELSE /\ cart' = Append(cart, c.products[Least(named)])
                  /\ chatLog'[Len(chatLog')].text # ReplyNotFound("app")]_vars

\* C20 witness: "buy something for men" names three entries of the fallback
\* catalog by their category; the first of them, the backpack, was added.
C20_Witness ==
  /\ variant = "app"
  /\ ev.op = "chatFallback"
  /\ ev.msg = "buy something for men"
  /\ ev.rule = "add"
  /\ Cardinality(NamedIn[FALLBACK_PRODUCTS, ev.msg]) = 3
  /\ Len(cart) = ev.cartLen0 + 1
  /\ cart[Len(cart)].title = "Urban Explorer Backpack 2025"

\* C21: after any sequence of operations (chat sends, possibly overlapping
\* in flight, cart-view checkout, registration) no two consecutive messages
\* of the chat transcript have the same sender.
C21_TranscriptAlternates ==
  \A i \in 1..(Len(chatLog) - 1) : chatLog[i].sender # chatLog[i + 1].sender

\* messages of the transcript sent by `sender`
CountOf(log, sender) == Len(SelectSeq(log, LAMBDA m : m.sender = sender))

\* bot messages that answer no send: the greeting of each front-end and the
\* welcome of handleRegister
Greetings(log) ==
  Len(SelectSeq(log, LAMBDA m :
        /\ m.sender = "bot"
        /\ \/ m.text \in {WelcomeMessage, Welcome5, Greeting1, Greeting3}
           \/ StartsWith(m.text, "Welcome **")))

\* user messages that are chat sends (the registration line of part_005 is not)
ChatSends(log) == CountOf(log, "user") - (IF userReg.registered THEN 1 ELSE 0)

\* bot messages that answer a send
Replies(log) == CountOf(log, "bot") - Greetings(log)

\* the step starts a chat call: a user message is appended and a call is pending
SendStarts ==
  /\ Len(calls') = Len(calls) + 1
  /\ SubSeq(calls', 1, Len(calls)) = calls

\* the step ends chat call k
CallEnds(k) == k \in 1..Len(calls) /\ calls' = RemoveAt(calls, k)

\* C22: when chat sends overlap (App.tsx, the StyleStore, part_005), under
\* every interleaving of their responses no message is lost or overwritten:
\* every step keeps the transcript as a prefix, a send appends its user
\* message, the step that ends a call appends exactly the reply of that call
\* and leaves the other pending calls pending, and the sends not yet answered
\* are exactly the pending calls (so once both have resolved, both user
\* messages and both replies are in the transcript, in resolution order).
C22_OverlappingSendsKeepAllMessages ==
  /\ [][/\ IsPrefix(chatLog, chatLog')
        /\ SendStarts =>
             chatLog' = Append(chatLog, UserMsg(calls'[Len(calls')].message))
        /\ \A k \in 1..Len(calls) :
             CallEnds(k) =>
               /\ chatLog' = Append(chatLog, BotMsg(ev'.reply))
               /\ ev'.msg = calls[k].message]_vars
  /\ [](ChatSends(chatLog) - Replies(chatLog) = Len(calls))

\* C22 witness: in App.tsx "hello" and then "Buy Gold Plated Ring" were sent
\* before either was answered; both POSTs failed and the fallback of the
\* second call ran first, so the replies stand in the transcript in the
\* opposite order of the sends, after both user messages.
C22_Witness ==
  /\ variant = "app"
  /\ calls = << >>
  /\ Len(chatLog) = 5
  /\ chatLog[2] = UserMsg("hello")
  /\ chatLog[3] = UserMsg("Buy Gold Plated Ring")
  /\ chatLog[4] = BotMsg(ReplyAdded("app", FALLBACK_PRODUCTS[4], 0))
  /\ chatLog[5] = BotMsg(ReplyOffline("app"))

\* the step is the continuation of handleChat (App.tsx, part_002) for call k
\* on a successful answer of POST /chat
BackendAnswers(k) ==
  /\ variant \in {"app", "p002"}
  /\ k \in 1..Len(calls)
  /\ calls[k].stage = "await"
  /\ calls' = RemoveAt(calls, k)
  /\ ev'.op = "chatResponse"
  /\ ev'.rule \in {"backend", "backend-add"}

\* the type field of the body whose text the bot replied with
TypeOfReply(text) == (CHOOSE b \in ChatBodies : b.text = text).type

\* C23: when POST /chat answers successfully, handleChat of App.tsx and
\* part_002 changes the cart only if the type of the response is
\* cart-update; for every other type the cart is unchanged.
C23_CartChangesOnlyOnCartUpdate ==
  [][\A k \in 1..Len(calls) :
       (BackendAnswers(k) /\ TypeOfReply(ev'.reply) # "cart-update") => cart' = cart]_vars

\* how often entry x stands in seq
Occurrences(seq, x) == Cardinality({ i \in 1..Len(seq) : seq[i] = x })

\* C24: in part_004, where handleChat waits 600 ms before it evaluates the
\* intent, an order placed through chat takes the cart as it is when the
\* cart is emptied: every cart entry, also one added with the Add-to-Cart
\* button during the wait, is in the items of the created order or still in
\* the cart afterwards.
C24_AddedWhileWaitingNotDropped ==
  [][(variant = "p004" /\ ev'.op = "handleChat4Resume" /\ ev'.rule = "place"
        /\ Len(orders') = Len(orders) + 1)
     => \A i \in 1..Len(cart) :
          Occurrences(cart, cart[i])
            <= Occurrences(orders'[1].items, cart[i]) + Occurrences(cart', cart[i])]_vars

\* units of product id in the quantity cart c
UnitsOf(c, id) == IF LineOf(c, id) = 0 THEN 0 ELSE c[LineOf(c, id)].quantity

\* the step ends call k, a placeOrder of the StyleStore, with a created order
OrderCreated(k) ==
  /\ variant \in StoreVariants
  /\ k \in 1..Len(calls)
  /\ calls[k].stage = "order"
  /\ calls' = RemoveAt(calls, k)
  /\ ev'.op = "placeOrderResponse"
  /\ Len(orders') = Len(orders) + 1

\* C25: in placeOrder of the StyleStore (part_001, part_003), when POST
\* /orders resolves, the cart entries removed are the ones submitted in that
\* request: the units of a product that were added while the request was in
\* flight are still in the cart afterwards.
C25_OrderRemovesOnlySubmittedEntries ==
  [][\A k \in 1..Len(calls) :
       OrderCreated(k) =>
         \A i \in 1..Len(cart) :
           UnitsOf(cart', cart[i].id)
             >= cart[i].quantity - UnitsOf(calls[k].cart, cart[i].id)]_vars

\* POST /orders requests awaited, as positions in calls
OrderCalls == { j \in 1..Len(calls) : calls[j].stage = "order" }

\* C26: in the StyleStore (part_001, part_003) one cart is submitted as at
\* most one order: Place Order pressed while a POST /orders is awaited sends
\* no second request, and when an order is created no other request with the
\* same cart contents is pending that would add a second order.
C26_OneOrderPerCart ==
  [][/\ (variant \in StoreVariants /\ ev'.op = "placeOrder"
           /\ Len(calls') = Len(calls) + 1)
        => OrderCalls = {}
     /\ \A k \in 1..Len(calls) :
          OrderCreated(k) =>
            \A j \in OrderCalls \ {k} : calls[j].cart # calls[k].cart]_vars

\* POST /chat requests of the StyleStore awaited, as positions in calls
StoreChatCalls == { j \in 1..Len(calls) : calls[j].stage = "chat" }

\* C27: in the StyleStore (part_001 sendChatMessage, part_003
\* handleChatSubmit) isTyping is true whenever at least one chat request
\* awaits its response, and is false only when none is in flight.
C27_TypingWhileAnyRequestPending ==
  variant \in StoreVariants => (StoreChatCalls # {} => isTyping)

\* C28: in the add-to-cart fallback of handleChat (App.tsx, part_004) the
\* count stated in the reply, 'Total items: N', is the number of entries in
\* the cart right after the product was appended, also when the cart was
\* changed while handleChat was waiting.
C28_TotalItemsIsCartSize ==
  [][(variant \in {"app", "p004"} /\ ev'.op \in {"chatFallback", "handleChat4Resume"}
        /\ ev'.rule = "add" /\ Len(calls') = Len(calls) - 1)
     => EndsWith(ev'.reply, "Total items: " \o ToString(Len(cart')) \o ".")]_vars

\* C29: in App.tsx isBackendOffline reflects the outcome of the backend
\* request that completed last: a successful chat POST leaves it false, a
\* failed one leaves it true, and after the products fetch it is true only
\* if that fetch failed (the catalog is then the fallback list).
C29_OfflineFlagFollowsLastRequest ==
  [][variant = "app" =>
       /\ \A k \in 1..Len(calls) : BackendAnswers(k) => ~isBackendOffline'
       /\ (ev'.op = "chatResponse" /\ ev'.rule = "failed" /\ ev' # ev) => isBackendOffline'
       /\ (initPending /\ ~initPending' /\ isBackendOffline')
            => products' = FALLBACK_PRODUCTS]_vars

\* C30: every call of handleChat (App.tsx, part_002, part_005) eventually
\* appends exactly one bot message after its own user message, whether a
\* local rule takes it, the backend answers or the backend fails, provided
\* the request eventually resolves or rejects: the step that ends a call
\* appends one bot message, the replies never outnumber the sends (the sends
\* not yet answered are exactly the pending calls), and the n-th send is
\* eventually followed by an n-th reply.
C30_EverySendGetsOneReply ==
  /\ [][\A k \in 1..Len(calls) :
          CallEnds(k) => (Len(chatLog') = Len(chatLog) + 1
                          /\ chatLog'[Len(chatLog')].sender = "bot")]_vars
  /\ [](ChatSends(chatLog) - Replies(chatLog) = Len(calls))
  /\ \A n \in 1..MaxOverlap :
       (ChatSends(chatLog) >= n) ~> (Replies(chatLog) >= n)

\* C30 witness: in App.tsx two sends overlapped, the POST of one failed and
\* its reply came from the local fallback; both sends have their reply and
\* no call is pending.
C30_Witness ==
  /\ variant = "app"
  /\ ev.op = "chatFallback"
  /\ calls = << >>
  /\ ChatSends(chatLog) = 2
  /\ Replies(chatLog) = 2
  /\ chatLog[2].sender = "user" /\ chatLog[3].sender = "user"

====
